---- MODULE Spec2Model ----
(***************************************************************************)
(* Quanta/functional/quantization.py: 4-bit and 8-bit quantization and     *)
(* dequantization of tensors (linear, normalized-float and minifloat).     *)
(*                                                                         *)
(* Tensor elements are rationals [n, d] in lowest terms.  d = 0 is a       *)
(* non-finite float: n = 0 is NaN, n = 1 is +Inf, n = -1 is -Inf.          *)
(* Arithmetic is exact, with two exceptions that follow float32, the       *)
(* default dtype of a torch tensor: the addition min_val + 1e-6 of the     *)
(* range guard is rounded to the float32 grid (GuardAdd), and the level    *)
(* tables are kept to six decimals.                                        *)
(***************************************************************************)
EXTENDS Integers, Sequences, FiniteSets

VARIABLES pc, tensor, bits, quant_type, per_channel, lib, res, deq

vars == <<pc, tensor, bits, quant_type, per_channel, lib, res, deq>>

-----------------------------------------------------------------------------
(* Bounds of the input grid *)

\* the 1-D input tensors hold the quarters k / 4 for k in -MaxNum .. MaxNum
MaxNum == 3

-----------------------------------------------------------------------------
(* Rational arithmetic with NaN *)

IAbs(i) == IF i < 0 THEN -i ELSE i

RECURSIVE Gcd(_, _)
Gcd(a, b) == IF b = 0 THEN a ELSE Gcd(b, a % b)

Pow2(k) == 2 ^ k

NaN == [n |-> 0, d |-> 0]

\* n / d in lowest terms, d > 0
R(n, d) ==
    LET g == Gcd(IAbs(n), IAbs(d))
        s == IF d < 0 THEN -1 ELSE 1
    IN  [n |-> s * (n \div g), d |-> s * (d \div g)]

Int2R(i) == [n |-> i, d |-> 1]

IsFinite(a) == a.d # 0
IsNaN(a) == a.d = 0 /\ a.n = 0

RAdd(a, b) ==
    IF ~IsFinite(a) \/ ~IsFinite(b) THEN NaN
    ELSE LET g == Gcd(a.d, b.d)
         IN  R(a.n * (b.d \div g) + b.n * (a.d \div g), (a.d \div g) * b.d)

RNeg(a) == [n |-> -a.n, d |-> a.d]

RSub(a, b) == RAdd(a, RNeg(b))

RMul(a, b) ==
    IF ~IsFinite(a) \/ ~IsFinite(b) THEN NaN
    ELSE LET g1 == Gcd(IAbs(a.n), b.d)
             g2 == Gcd(IAbs(b.n), a.d)
         IN  IF a.n = 0 \/ b.n = 0 THEN Int2R(0)
             ELSE [n |-> (a.n \div g1) * (b.n \div g2),
                   d |-> (a.d \div g2) * (b.d \div g1)]

\* IEEE division: x / 0 is +-Inf, 0 / 0 is NaN
RDiv(a, b) ==
    IF ~IsFinite(a) \/ ~IsFinite(b) THEN NaN
    ELSE IF b.n = 0
         THEN [n |-> IF a.n > 0 THEN 1 ELSE IF a.n < 0 THEN -1 ELSE 0, d |-> 0]
         ELSE RMul(a, IF b.n > 0 THEN [n |-> b.d, d |-> b.n]
                                 ELSE [n |-> -b.d, d |-> -b.n])

\* comparisons are false when an operand is NaN, as in IEEE
RLt(a, b) ==
    /\ IsFinite(a) /\ IsFinite(b)
    /\ LET g == Gcd(a.d, b.d)
       IN  a.n * (b.d \div g) < b.n * (a.d \div g)

RLe(a, b) ==
    /\ IsFinite(a) /\ IsFinite(b)
    /\ LET g == Gcd(a.d, b.d)
       IN  a.n * (b.d \div g) <= b.n * (a.d \div g)

RAbs(a) == [n |-> IAbs(a.n), d |-> a.d]

\* torch.round: to the nearest integer, halves to the even one; NaN stays NaN
RRound(a) ==
    IF ~IsFinite(a) THEN a
    ELSE LET f == a.n \div a.d
             r2 == 2 * (a.n - f * a.d)
         IN  Int2R(IF r2 < a.d THEN f
                   ELSE IF r2 > a.d THEN f + 1
                   ELSE IF f % 2 = 0 THEN f ELSE f + 1)

\* torch.clamp: NaN stays NaN
RClamp(a, lo, hi) ==
    IF IsNaN(a) THEN a
    ELSE IF RLt(a, Int2R(lo)) THEN Int2R(lo)
    ELSE IF RLt(Int2R(hi), a) THEN Int2R(hi)
    ELSE a

\* .to(torch.uint8) of an integral float in 0 .. 255; the cast of NaN, which
\* the C++ standard leaves open, gives 0 on the x86, ARM and CUDA builds
ToUint8(a) == IF ~IsFinite(a) THEN 0 ELSE (a.n \div a.d) % 256

RMinOf(S) == CHOOSE m \in S : \A x \in S : RLe(m, x)
RMaxOf(S) == CHOOSE m \in S : \A x \in S : RLe(x, m)

-----------------------------------------------------------------------------
(* Tensors: dim is 1 or 2; v is the sequence of rows (one row when dim = 1) *)

NRows(t) == Len(t.v)
NCols(t) == Len(t.v[1])
Elems(t) == {t.v[i][j] : i \in 1 .. NRows(t), j \in 1 .. NCols(t)}
Column(t, j) == {t.v[i][j] : i \in 1 .. NRows(t)}
Map(t, F(_, _, _)) ==
    [i \in 1 .. NRows(t) |-> [j \in 1 .. NCols(t) |-> F(t.v[i][j], i, j)]]

\* broadcasting of a 0-dim or (1, cols) parameter over the element (i, j)
Bcast(p, i, j) == IF Len(p) = 1 THEN p[1] ELSE p[j]

None == [none |-> TRUE]

-----------------------------------------------------------------------------
(* Linear quantization *)

\* float32 min_val + 1e-6: 1e-6 is under half a unit in the last place from
\* 32 upwards and below -32, where the sum rounds back to min_val
GuardAdd(v) ==
    IF RLe(Int2R(32), v) \/ RLt(v, Int2R(-32)) THEN v
    ELSE RAdd(v, R(1, 1000000))

\* the range of one slice: min, and max nudged when the slice is constant
RangeMin(S) == RMinOf(S)
RangeMax(S) == IF RMaxOf(S) = RMinOf(S) THEN GuardAdd(RMinOf(S)) ELSE RMaxOf(S)

\* a reduction over dimension 1 instead: one entry per row
SlicesDim1(t) == [i \in 1 .. NRows(t) |-> {t.v[i][j] : j \in 1 .. NCols(t)}]

\* the slices of tensor.min(dim=0, keepdim=True): the reduction runs over the
\* rows and keeps one entry per column, shape (1, cols)
SlicesDim0(t) == [j \in 1 .. NCols(t) |-> Column(t, j)]
\* the one slice of tensor.min(): the whole tensor
SlicesAll(t) == <<Elems(t)>>

\* codes counted down from max instead of up from min
LinearCodeFromMax(x, mn, scale, L) ==
    ToUint8(RClamp(RRound(RDiv(RSub(RAdd(mn, RMul(scale, Int2R(L))), x), scale)),
                   0, L))

LinearCode(x, mn, scale, L) ==
    ToUint8(RClamp(RRound(RDiv(RSub(x, mn), scale)), 0, L))

\* dimNone is what tensor.min(dim=None, keepdim=True) does on a 1-D tensor:
\* "raises" or "reduces" (over all elements)
quantize_linear(t, pch, L, dimNone) ==
    IF pch /\ t.dim = 1 /\ dimNone = "raises"
    THEN [err |-> "RuntimeError", invoked |-> "linear", q |-> None,
          p1 |-> None, p2 |-> None]
    ELSE LET slices == IF pch /\ t.dim > 1 THEN SlicesDim0(t) ELSE SlicesAll(t)
             min_val == [k \in 1 .. Len(slices) |-> RangeMin(slices[k])]
             max_val == [k \in 1 .. Len(slices) |-> RangeMax(slices[k])]
             scale == [k \in 1 .. Len(min_val) |->
                          RDiv(RSub(max_val[k], min_val[k]), Int2R(L))]
             zero_point == min_val
             code(x, i, j) ==
                 LinearCode(x, Bcast(min_val, i, j), Bcast(scale, i, j), L)
         IN  [err |-> "none", invoked |-> "linear", q |-> Map(t, code),
              p1 |-> scale, p2 |-> zero_point]

quantize_4bit_linear(t, pch, dimNone) == quantize_linear(t, pch, 15, dimNone)
quantize_8bit_linear(t, pch, dimNone) == quantize_linear(t, pch, 255, dimNone)

-----------------------------------------------------------------------------
(* Normalized-float (codebook) quantization *)

\* the level tables, in millionths
NF4Millionths ==
    <<-1000000, -696193, -525073, -394917, -284441, -184773, -91050, 0,
      79580, 160930, 246112, 337915, 440710, 562617, 722957, 1000000>>

\* tanh(2 * linspace(-1, 1, 256)), in millionths
NF8Millionths ==
    <<-964028, -962902, -961743, -960548, -959316, -958046, -956738, -955390,
      -954001, -952570, -951095, -949576, -948011, -946398, -944737, -943026,
      -941264, -939449, -937579, -935654, -933671, -931629, -929527, -927363,
      -925135, -922841, -920479, -918049, -915547, -912973, -910324, -907598,
      -904793, -901908, -898940, -895887, -892746, -889517, -886196, -882782,
      -879272, -875663, -871955, -868143, -864226, -860201, -856066, -851819,
      -847457, -842977, -838377, -833655, -828807, -823832, -818726, -813488,
      -808114, -802602, -796950, -791154, -785213, -779124, -772884, -766491,
      -759942, -753236, -746369, -739339, -732144, -724782, -717251, -709549,
      -701673, -693622, -685393, -676986, -668399, -659629, -650676, -641539,
      -632215, -622705, -613008, -603122, -593047, -582783, -572330, -561687,
      -550855, -539834, -528625, -517229, -505646, -493878, -481926, -469792,
      -457478, -444986, -432319, -419478, -406468, -393290, -379949, -366448,
      -352790, -338981, -325024, -310924, -296686, -282315, -267816, -253195,
      -238457, -223608, -208655, -193604, -178460, -163232, -147926, -132549,
      -117107, -101609, -86061, -70471, -54847, -39195, -23525, -7843,
      7843, 23525, 39195, 54847, 70471, 86061, 101609, 117107,
      132549, 147926, 163232, 178460, 193604, 208655, 223608, 238457,
      253195, 267816, 282315, 296686, 310924, 325024, 338981, 352790,
      366448, 379949, 393290, 406468, 419478, 432319, 444986, 457478,
      469792, 481926, 493878, 505646, 517229, 528625, 539834, 550855,
      561687, 572330, 582783, 593047, 603122, 613008, 622705, 632215,
      641539, 650676, 659629, 668399, 676986, 685393, 693622, 701673,
      709549, 717251, 724782, 732144, 739339, 746369, 753236, 759942,
      766491, 772884, 779124, 785213, 791154, 796950, 802602, 808114,
      813488, 818726, 823832, 828807, 833655, 838377, 842977, 847457,
      851819, 856066, 860201, 864226, 868143, 871955, 875663, 879272,
      882782, 886196, 889517, 892746, 895887, 898940, 901908, 904793,
      907598, 910324, 912973, 915547, 918049, 920479, 922841, 925135,
      927363, 929527, 931629, 933671, 935654, 937579, 939449, 941264,
      943026, 944737, 946398, 948011, 949576, 951095, 952570, 954001,
      955390, 956738, 958046, 959316, 960548, 961743, 962902, 964028>>

nf4_levels == [k \in 1 .. Len(NF4Millionths) |-> R(NF4Millionths[k], 1000000)]
nf8_levels == [k \in 1 .. Len(NF8Millionths) |-> R(NF8Millionths[k], 1000000)]

\* torch.argmin over the last dimension: the first index (from 0) of the
\* least distance; when every distance is NaN, the first NaN, index 0.
\* The least of dist[lo .. hi], the lower half winning a draw.
\* the upper half winning a draw: the last index of the least distance
RECURSIVE ArgminRangeLast(_, _, _)
ArgminRangeLast(dist, lo, hi) ==
    IF lo = hi THEN lo
    ELSE LET mid == (lo + hi) \div 2
             a == ArgminRangeLast(dist, lo, mid)
             b == ArgminRangeLast(dist, mid + 1, hi)
         IN  IF RLe(dist[b], dist[a]) THEN b ELSE a

RECURSIVE ArgminRange(_, _, _)
ArgminRange(dist, lo, hi) ==
    IF lo = hi THEN lo
    ELSE LET mid == (lo + hi) \div 2
             a == ArgminRange(dist, lo, mid)
             b == ArgminRange(dist, mid + 1, hi)
         IN  IF RLt(dist[b], dist[a]) THEN b ELSE a

Argmin(dist) == ArgminRange(dist, 1, Len(dist)) - 1

Distances(x, levels) == [k \in 1 .. Len(levels) |-> RAbs(RSub(x, levels[k]))]

quantize_nf(t, levels, name) ==
    LET abs_max == RMaxOf({RAbs(x) : x \in Elems(t)})
        index(x, i, j) == Argmin(Distances(RDiv(x, abs_max), levels))
    IN  [err |-> "none", invoked |-> name, q |-> Map(t, index),
         p1 |-> levels, p2 |-> <<abs_max>>]

quantize_4bit_nf4(t) == quantize_nf(t, nf4_levels, "nf4")
quantize_8bit_nf8(t) == quantize_nf(t, nf8_levels, "nf8")

-----------------------------------------------------------------------------
(* Minifloat quantization *)

RECURSIVE BitAnd(_, _)
BitAnd(a, b) ==
    IF a = 0 \/ b = 0 THEN 0
    ELSE (a % 2) * (b % 2) + 2 * BitAnd(a \div 2, b \div 2)

RECURSIVE BitOr(_, _)
BitOr(a, b) ==
    IF a = 0 THEN b
    ELSE IF b = 0 THEN a
    ELSE (IF a % 2 = 1 \/ b % 2 = 1 THEN 1 ELSE 0) + 2 * BitOr(a \div 2, b \div 2)

Shl(a, k) == (a * Pow2(k)) % 256
Shr(a, k) == a \div Pow2(k)

\* 2.0 ** k for an integer k of either sign
Pow2R(k) == IF k >= 0 THEN Int2R(Pow2(k)) ELSE R(1, Pow2(-k))

\* torch.round(torch.log2(a)) for a rational a > 0: the k with
\* 2^(k - 1/2) < a < 2^(k + 1/2); log2 of a rational is never a half
RECURSIVE RoundLog2(_)
RoundLog2(a) ==
    IF a.n * a.n > 2 * a.d * a.d THEN 1 + RoundLog2(R(a.n, 2 * a.d))
    ELSE IF 2 * a.n * a.n < a.d * a.d THEN RoundLog2(R(2 * a.n, a.d)) - 1
    ELSE 0

\* no clamp at all
IClampNone(i, lo, hi) == i

IClamp(i, lo, hi) == IF i < lo THEN lo ELSE IF i > hi THEN hi ELSE i

\* abs_values + (abs_values == 0).float()
LogArg(a) == IF a.n = 0 THEN RAdd(a, Int2R(1)) ELSE a

Fp4Exp(x) == IClamp(RoundLog2(LogArg(RAbs(x))) + 1, 0, 3)

Fp4Mantissa(x) ==
    ToUint8(RClamp(RRound(RSub(RDiv(RAbs(x), Pow2R(Fp4Exp(x) - 1)), Int2R(1))),
                   0, 1))

Fp4Code(x) ==
    LET q == BitOr(Shl(Fp4Exp(x), 1), Fp4Mantissa(x))
    IN  IF x.n < 0 THEN BitOr(q, 8) ELSE q

quantize_4bit_fp4(t) ==
    LET code(x, i, j) == Fp4Code(x)
    IN  [err |-> "none", invoked |-> "fp4", q |-> Map(t, code),
         p1 |-> None, p2 |-> 1]

Fp8Exp(x) == IClamp(RoundLog2(LogArg(RAbs(x))) + 7, 0, 15)

Fp8Mantissa(x) ==
    ToUint8(RClamp(RRound(RSub(RMul(RDiv(RAbs(x), Pow2R(Fp8Exp(x) - 7)),
                                    Int2R(8)), Int2R(8))),
                   0, 7))

Fp8Code(x) ==
    LET q == BitOr(Shl(Fp8Exp(x), 3), Fp8Mantissa(x))
    IN  IF x.n < 0 THEN BitOr(q, 128) ELSE q

quantize_8bit_fp8(t) ==
    LET code(x, i, j) == Fp8Code(x)
    IN  [err |-> "none", invoked |-> "fp8", q |-> Map(t, code),
         p1 |-> None, p2 |-> 7]

-----------------------------------------------------------------------------
(* Dispatch *)

Raised == [err |-> "ValueError", invoked |-> "none", q |-> None,
           p1 |-> None, p2 |-> None]

\* an unknown tag falling through to the default scheme instead of raising
quantize_4bit_default(t, qtype, pch, dimNone) ==
    IF qtype = "nf4" THEN quantize_4bit_nf4(t)
    ELSE IF qtype = "fp4" THEN quantize_4bit_fp4(t)
    ELSE quantize_4bit_linear(t, pch, dimNone)

quantize_4bit(t, qtype, pch, dimNone) ==
    IF qtype = "linear" THEN quantize_4bit_linear(t, pch, dimNone)
    ELSE IF qtype = "nf4" THEN quantize_4bit_nf4(t)
    ELSE IF qtype = "fp4" THEN quantize_4bit_fp4(t)
    ELSE Raised

quantize_8bit(t, qtype, pch, dimNone) ==
    IF qtype = "linear" THEN quantize_8bit_linear(t, pch, dimNone)
    ELSE IF qtype = "nf8" THEN quantize_8bit_nf8(t)
    ELSE IF qtype = "fp8" THEN quantize_8bit_fp8(t)
    ELSE Raised

-----------------------------------------------------------------------------
(* Dequantization; q is a sequence of rows of codes *)

MapCodes(q, F(_, _, _)) ==
    [i \in 1 .. Len(q) |-> [j \in 1 .. Len(q[1]) |-> F(q[i][j], i, j)]]

DeqRaised == [err |-> "ValueError", invoked |-> "none", x |-> None]

DeqLinear(q, scale, zero_point) ==
    LET val(c, i, j) ==
            RAdd(RMul(Int2R(c), Bcast(scale, i, j)), Bcast(zero_point, i, j))
    IN  [err |-> "none", invoked |-> "linear", x |-> MapCodes(q, val)]

DeqNf(q, levels, mult, name) ==
    LET val(c, i, j) == RMul(levels[c + 1], mult[1])
    IN  [err |-> "none", invoked |-> name, x |-> MapCodes(q, val)]

\* the exponent masked with 0x07 instead of 0x0F
Fp8ValueNarrowMask(c, bias) ==
    LET signs == IF BitAnd(c, 128) # 0 THEN Int2R(-1) ELSE Int2R(1)
        exp_values == BitAnd(Shr(c, 3), 7)
        mantissa_values == BitAnd(c, 7)
        values == RMul(RAdd(Int2R(1), R(mantissa_values, 8)),
                       Pow2R(exp_values - bias))
    IN  RMul(values, signs)

Fp8Value(c, bias) ==
    LET signs == IF BitAnd(c, 128) # 0 THEN Int2R(-1) ELSE Int2R(1)
        exp_values == BitAnd(Shr(c, 3), 15)
        mantissa_values == BitAnd(c, 7)
        values == RMul(RAdd(Int2R(1), R(mantissa_values, 8)),
                       Pow2R(exp_values - bias))
    IN  RMul(values, signs)

Fp4Value(c, bias) ==
    LET signs == IF BitAnd(c, 8) # 0 THEN Int2R(-1) ELSE Int2R(1)
        exp_values == BitAnd(Shr(c, 1), 3)
        mantissa_values == BitAnd(c, 1)
        values == RMul(RAdd(Int2R(1), Int2R(mantissa_values)),
                       Pow2R(exp_values - bias))
    IN  RMul(values, signs)

dequantize_8bit(q, p1, p2, qtype) ==
    IF qtype = "linear" THEN DeqLinear(q, p1, p2)
    ELSE IF qtype = "nf8" THEN DeqNf(q, p1, p2, "nf8")
    ELSE IF qtype = "fp8"
         THEN LET val(c, i, j) == Fp8Value(c, p2)
              IN  [err |-> "none", invoked |-> "fp8", x |-> MapCodes(q, val)]
    ELSE DeqRaised

dequantize_4bit(q, p1, p2, qtype) ==
    IF qtype = "linear" THEN DeqLinear(q, p1, p2)
    ELSE IF qtype = "nf4" THEN DeqNf(q, p1, p2, "nf4")
    ELSE IF qtype = "fp4"
         THEN LET val(c, i, j) == Fp4Value(c, p2)
              IN  [err |-> "none", invoked |-> "fp4", x |-> MapCodes(q, val)]
    ELSE DeqRaised

-----------------------------------------------------------------------------
(* The calls a client makes.  A call starts with its arguments chosen:
   either a tensor to quantize, whose result is then dequantized with the
   same tag, or a code tensor of the caller's own to dequantize. *)

\* quarters between -MaxNum / 4 and MaxNum / 4
Grid == {R(k, 4) : k \in -MaxNum .. MaxNum}
Coarse == {Int2R(0), Int2R(10), Int2R(100), Int2R(200)}
Small == {Int2R(0), Int2R(1), Int2R(10)}

Tensors1D ==
    {[dim |-> 1, v |-> <<<<a, b, c>>>>] : a \in Grid, b \in Grid, c \in Grid}
    \cup {[dim |-> 1, v |-> <<<<a, a, a>>>>] : a \in Coarse}

Tensors2D ==
    {[dim |-> 2, v |-> <<<<a, b>>, <<c, d>>>>] :
        a \in Coarse, b \in Coarse, c \in Coarse, d \in Coarse}
    \cup {[dim |-> 2, v |-> <<<<a, d>>, <<b, a>>, <<c, b>>>>] :
        a \in Small, b \in Small, c \in Small, d \in Small}

Tensors == Tensors1D \cup Tensors2D

Tags == {"linear", "nf4", "fp4", "nf8", "fp8", "bogus", "Linear"}
Widths == {4, 8}
DimNoneOutcomes == {"raises", "reduces"}

\* the parameters a caller passes with a code tensor under each tag
ParamsFor(qt, bias) ==
    IF qt = "nf4" THEN [p1 |-> nf4_levels, p2 |-> <<Int2R(1)>>]
    ELSE IF qt = "nf8" THEN [p1 |-> nf8_levels, p2 |-> <<Int2R(1)>>]
    ELSE IF qt \in {"fp4", "fp8"} THEN [p1 |-> None, p2 |-> bias]
    ELSE [p1 |-> <<R(1, 4)>>, p2 |-> <<Int2R(0)>>]

NoResult == [err |-> "none", invoked |-> "none", q |-> None,
             p1 |-> None, p2 |-> None]

InitQuantize ==
    /\ pc = "quantize"
    /\ tensor \in Tensors
    /\ bits \in Widths
    /\ quant_type \in Tags
    /\ per_channel \in BOOLEAN
    /\ lib \in DimNoneOutcomes
    \* the outcome of min(dim=None) is only read by a per-channel linear
    \* call on a 1-D tensor
    /\ lib = "raises" => quant_type = "linear" /\ per_channel /\ tensor.dim = 1
    /\ res = NoResult
    /\ deq = None

InitDequantize ==
    /\ pc = "dequantize"
    /\ tensor = None
    /\ bits \in Widths
    /\ quant_type \in Tags
    /\ per_channel = FALSE
    /\ lib = "reduces"
    /\ \E bias \in {1, 7} : \E c \in 0 .. Pow2(bits) - 1 :
          res = [err |-> "none", invoked |-> "caller", q |-> <<<<c>>>>,
                 p1 |-> ParamsFor(quant_type, bias).p1,
                 p2 |-> ParamsFor(quant_type, bias).p2]
    /\ deq = None

Init == InitQuantize \/ InitDequantize

\* quantize_4bit(tensor, quant_type, per_channel)
Quantize4 ==
    /\ pc = "quantize"
    /\ bits = 4
    /\ res' = quantize_4bit(tensor, quant_type, per_channel, lib)
    /\ pc' = "quantized"
    /\ UNCHANGED <<tensor, bits, quant_type, per_channel, lib, deq>>

\* quantize_8bit(tensor, quant_type, per_channel)
Quantize8 ==
    /\ pc = "quantize"
    /\ bits = 8
    /\ res' = quantize_8bit(tensor, quant_type, per_channel, lib)
    /\ pc' = "quantized"
    /\ UNCHANGED <<tensor, bits, quant_type, per_channel, lib, deq>>

\* dequantize_4bit of the 4-bit quantizer's result, or of the caller's codes
Dequantize4 ==
    /\ pc \in {"quantized", "dequantize"}
    /\ bits = 4
    /\ res.err = "none"
    /\ deq' = dequantize_4bit(res.q, res.p1, res.p2, quant_type)
    /\ pc' = IF pc = "quantized" THEN "dequantized" ELSE "decoded"
    /\ UNCHANGED <<tensor, bits, quant_type, per_channel, lib, res>>

\* dequantize_8bit of the 8-bit quantizer's result, or of the caller's codes
Dequantize8 ==
    /\ pc \in {"quantized", "dequantize"}
    /\ bits = 8
    /\ res.err = "none"
    /\ deq' = dequantize_8bit(res.q, res.p1, res.p2, quant_type)
    /\ pc' = IF pc = "quantized" THEN "dequantized" ELSE "decoded"
    /\ UNCHANGED <<tensor, bits, quant_type, per_channel, lib, res>>

Next == Quantize4 \/ Quantize8 \/ Dequantize4 \/ Dequantize8

Spec == Init /\ [][Next]_vars

-----------------------------------------------------------------------------
(* Properties *)

Accepted(b) == IF b = 4 THEN {"linear", "nf4", "fp4"} ELSE {"linear", "nf8", "fp8"}

Quantized == pc \in {"quantized", "dequantized"} /\ res.err = "none"
Positions == {<<i, j>> : i \in 1 .. NRows(tensor), j \in 1 .. NCols(tensor)}
X(p) == tensor.v[p[1]][p[2]]
Code(p) == res.q[p[1]][p[2]]
XHat(p) == deq.x[p[1]][p[2]]
Eps == R(1, 1000000)
LevelCount == Pow2(bits) - 1

\* C1: every element of the code tensor a quantizer returns lies in
\* 0 .. 2^bits - 1 (0 .. 15 from quantize_4bit, 0 .. 255 from quantize_8bit),
\* for every scheme and either value of per_channel, and the code tensor has
\* the shape of the input.
C1_CodesInRange ==
    Quantized =>
        /\ Len(res.q) = NRows(tensor)
        /\ \A i \in 1 .. NRows(tensor) : Len(res.q[i]) = NCols(tensor)
        /\ \A p \in Positions : Code(p) \in 0 .. Pow2(bits) - 1

C1_Witness ==
    /\ pc = "quantized" /\ bits = 4 /\ quant_type = "fp4" /\ res.err = "none"
    /\ \E p \in Positions : Code(p) = 7 /\ RLt(Int2R(4), X(p))

\* the slice an element shares its scale and zero point with
Slice(p) ==
    IF per_channel /\ tensor.dim > 1 THEN Column(tensor, p[2]) ELSE Elems(tensor)
Scale(p) == Bcast(res.p1, p[1], p[2])

\* C2: linear round trip: |x_hat - x| <= scale / 2 for every element; and
\* where the tensor (or channel) is constant, so that the guard
\* max = min + 1e-6 was applied, scale > 0 (no division by zero) and x_hat is
\* within 1e-6 of the constant.
C2_LinearRoundTrip ==
    (pc = "dequantized" /\ quant_type = "linear") =>
        \A p \in Positions :
            /\ RLe(RAbs(RSub(XHat(p), X(p))), RDiv(Scale(p), Int2R(2)))
            /\ Cardinality(Slice(p)) = 1 =>
                   /\ RLt(Int2R(0), Scale(p))
                   /\ RLe(RAbs(RSub(XHat(p), X(p))), Eps)

ColumnTensor(j) == [dim |-> 1, v |-> <<[i \in 1 .. NRows(tensor) |-> tensor.v[i][j]]>>]
RowTensor(i) == [dim |-> 1, v |-> <<tensor.v[i]>>]
QuantizeAlone(t) ==
    IF bits = 4 THEN quantize_4bit(t, "linear", FALSE, lib)
    ELSE quantize_8bit(t, "linear", FALSE, lib)
Example == <<<<Int2R(0), Int2R(10)>>, <<Int2R(100), Int2R(200)>>>>
PerChannel2D ==
    /\ pc \in {"quantized", "dequantized"}
    /\ quant_type = "linear" /\ per_channel /\ tensor.dim = 2

ExpBits == IF bits = 4 THEN 2 ELSE 4
ManBits == IF bits = 4 THEN 1 ELSE 3
SignField(c) == (c \div Pow2(ExpBits + ManBits)) % 2
ExpField(c) == (c \div Pow2(ManBits)) % Pow2(ExpBits)
ManField(c) == c % Pow2(ManBits)
FpCall == quant_type \in {"fp4", "fp8"} /\ quant_type \in Accepted(bits)

\* C4: quantizing 0.0 with fp4 or fp8 gives a code with the sign bit clear
\* and the exponent field 0, and dequantizing it gives a finite value of
\* magnitude (1 + mantissa / 2^m) * 2^(0 - bias).
C4_ZeroHandling ==
    (pc = "dequantized" /\ FpCall) =>
        \A p \in Positions :
            X(p) = Int2R(0) =>
                /\ SignField(Code(p)) = 0
                /\ ExpField(Code(p)) = 0
                /\ IsFinite(XHat(p))
                /\ RAbs(XHat(p)) =
                       RMul(RAdd(Int2R(1), R(ManField(Code(p)), Pow2(ManBits))),
                            Pow2R(0 - res.p2))

NfCall == quant_type \in {"nf4", "nf8"} /\ quant_type \in Accepted(bits)
Normalized(x) == RDiv(x, res.p2[1])
Dist(nx, k) == RAbs(RSub(nx, res.p1[k + 1]))

\* C5: for nf4 and nf8 with abs_max > 0 the index returned for an element is
\* that of a level nearest to x / abs_max, the lowest such index when two
\* levels are equally near; abs_max is the largest |x| of the whole tensor;
\* the table returned has 2^bits entries in non-decreasing order.
C5_NearestLevel ==
    (pc = "quantized" /\ NfCall /\ res.p2[1] # Int2R(0)) =>
        /\ res.p2[1] \in {RAbs(x) : x \in Elems(tensor)}
        /\ \A x \in Elems(tensor) : RLe(RAbs(x), res.p2[1])
        /\ Len(res.p1) = Pow2(bits)
        /\ \A k \in 1 .. Len(res.p1) - 1 : RLe(res.p1[k], res.p1[k + 1])
        /\ \A p \in Positions :
              LET nx == Normalized(X(p))
                  own == Dist(nx, Code(p))
              IN  \A k \in 0 .. Pow2(bits) - 1 :
                      LET other == Dist(nx, k)
                      IN  /\ RLe(own, other)
                          /\ other = own => Code(p) <= k

\* a zero beside a nonzero element: levels 127 and 128 of nf8 are equally near
C5_Witness ==
    /\ pc = "quantized" /\ quant_type = "nf8" /\ bits = 8
    /\ res.p2[1] # Int2R(0)
    /\ \E p \in Positions :
          /\ X(p) = Int2R(0) /\ Code(p) = 127
          /\ Dist(Normalized(X(p)), 127) = Dist(Normalized(X(p)), 128)

\* C6: quantize_4bit and dequantize_4bit accept exactly linear, nf4, fp4 and
\* quantize_8bit and dequantize_8bit exactly linear, nf8, fp8; any other tag
\* raises the error of an unknown type with no quantizer (dequantizer) run
\* and nothing returned.
C6_DispatchRejection ==
    /\ pc \in {"quantized", "dequantized"} =>
          IF quant_type \in Accepted(bits)
          THEN res.err # "ValueError" /\ res.invoked = quant_type
          ELSE res.err = "ValueError" /\ res.invoked = "none" /\ res.q = None
    /\ pc \in {"dequantized", "decoded"} =>
          IF quant_type \in Accepted(bits)
          THEN deq.err = "none" /\ deq.invoked = quant_type
          ELSE deq.err = "ValueError" /\ deq.invoked = "none" /\ deq.x = None

C6_Witness ==
    /\ pc = "quantized" /\ bits = 4 /\ quant_type = "nf8"
    /\ res.err = "ValueError" /\ res.q = None

Unclamped(x) ==
    LET k == RoundLog2(RAbs(x)) + res.p2
    IN  0 <= k /\ k <= Pow2(ExpBits) - 1

\* C7: for fp4 and fp8 and every nonzero x whose exponent
\* round(log2|x| + bias) lies in 0 .. 2^e - 1 without clamping,
\* |x_hat - x| / |x| <= 2^-m.
C7_RelativeError ==
    (pc = "dequantized" /\ FpCall) =>
        \A p \in Positions :
            (X(p) # Int2R(0) /\ Unclamped(X(p))) =>
                RLe(RAbs(RSub(XHat(p), X(p))),
                    RMul(R(1, Pow2(ManBits)), RAbs(X(p))))

FpDecoded == pc \in {"dequantized", "decoded"} /\ FpCall
Codes == {res.q[i][j] : i \in 1 .. Len(res.q), j \in 1 .. Len(res.q[1])}
Decoded(c) ==
    LET at == CHOOSE p \in {<<i, j>> : i \in 1 .. Len(res.q), j \in 1 .. Len(res.q[1])} :
                  res.q[p[1]][p[2]] = c
    IN  deq.x[at[1]][at[2]]
Signed(c, magnitude) == IF SignField(c) = 1 THEN RNeg(magnitude) ELSE magnitude

\* C8 as stated: the minifloat dequantizers return
\* (1 + mantissa / 2^m) * 2^(exponent - bias), negated exactly when the sign
\* bit is set, for fp4 (m = 1) as for fp8 (m = 3).
C8_DecodeFormula ==
    FpDecoded =>
        \A c \in Codes :
            Decoded(c) =
                Signed(c, RMul(RAdd(Int2R(1), R(ManField(c), Pow2(ManBits))),
                               Pow2R(ExpField(c) - res.p2)))

\* C8 amended: dequantize_8bit with fp8 returns
\* (1 + mantissa / 8) * 2^(exponent - bias) and dequantize_4bit with fp4
\* returns (1 + mantissa) * 2^(exponent - bias) (mantissa 1 doubles the
\* value), each negated exactly when the sign bit is set.
C8_DecodeFormulaPerWidth ==
    FpDecoded =>
        \A c \in Codes :
            Decoded(c) =
                Signed(c, RMul(IF bits = 4
                               THEN RAdd(Int2R(1), Int2R(ManField(c)))
                               ELSE RAdd(Int2R(1), R(ManField(c), 8)),
                               Pow2R(ExpField(c) - res.p2)))

C8_Witness ==
    /\ pc = "decoded" /\ quant_type = "fp4" /\ bits = 4 /\ res.p2 = 1
    /\ res.q = <<<<15>>>>
    /\ deq.x = <<<<Int2R(-8)>>>>

\* the divisors of the quantizer that ran: scale, or abs_max
Divisors ==
    IF quant_type = "linear" THEN {res.p1[k] : k \in 1 .. Len(res.p1)}
    ELSE IF NfCall THEN {res.p2[1]}
    ELSE {}

\* C9: quantizing a constant tensor, the all-zero one included, divides by
\* zero under no scheme and yields no NaN; the codes are in range and the
\* dequantized values are finite.
C9_NoNumericError ==
    (Quantized /\ Cardinality(Elems(tensor)) = 1) =>
        /\ \A s \in Divisors : s # Int2R(0)
        /\ \A p \in Positions : Code(p) \in 0 .. Pow2(bits) - 1
        /\ pc = "dequantized" => \A p \in Positions : IsFinite(XHat(p))

\* C10: two elements x1 < x2 quantized by the linear quantizer with the same
\* (scale, zero_point), the same tensor or the same channel, get codes
\* code(x1) <= code(x2).
C10_Monotone ==
    (pc = "quantized" /\ quant_type = "linear" /\ res.err = "none") =>
        \A p1 \in Positions : \A p2 \in Positions :
            ((Len(res.p1) = 1 \/ p1[2] = p2[2]) /\ RLt(X(p1), X(p2)))
                => Code(p1) <= Code(p2)

C10_Witness ==
    /\ pc = "quantized" /\ quant_type = "linear" /\ per_channel
    /\ tensor.dim = 2 /\ res.err = "none"
    /\ \E p1 \in Positions : \E p2 \in Positions :
          /\ p1[2] = p2[2] /\ RLt(X(p1), X(p2))
          /\ 0 < Code(p1) /\ Code(p1) < Code(p2)

====
